---- MODULE Spec2Model ----
(***************************************************************************)
(* Model of the mqttrs packet codec: the primitive types of utils.rs       *)
(* (PacketIdentifier, Protocol, QoS, QosPid, ConnectReturnCode) and the    *)
(* CONNECT / CONNACK codecs of connect.rs.                                 *)
(*                                                                         *)
(* Representation.  A byte is a number in 0..255 and a BytesMut is a       *)
(* sequence of bytes.  A String is the sequence of its UTF-8 bytes.        *)
(* Option<T>: None is <<>> and Some(x) is <<x>>.  Result<T, io::Error>:    *)
(* a record [status, value] with status "Ok" (value = <<x>>), "Err"        *)
(* (value = <<>>) or "Panic" (the call aborted the thread: an unwrap on    *)
(* Err, or bytes' split_to past the end of the buffer).                    *)
(***************************************************************************)
EXTENDS Integers, Sequences, FiniteSets, TLC

VARIABLES
    input,    \* the arguments of the operation under way
    buffer,   \* the BytesMut handed to the codec
    pending,  \* the kinds of the packet bodies still in the buffer
    result,   \* what the operations returned so far, in call order
    pc        \* position of the caller

vars == <<input, buffer, pending, result, pc>>

-----------------------------------------------------------------------------
(* Bounds and input domains *)

\* longest string field drawn for a packet
MaxStrLen == 1

U8 == 0..255
U16 == 0..65535

None == <<>>
Some(x) == <<x>>

Ok(x) == [status |-> "Ok", value |-> <<x>>]
Err == [status |-> "Err", value |-> <<>>]
Panic == [status |-> "Panic", value |-> <<>>]

-----------------------------------------------------------------------------
(* u8 arithmetic *)

Pow2(n) == 2 ^ n

\* bit i of x
Bit(x, i) == (x \div Pow2(i)) % 2

\* x & m and x | m on bytes
BitAnd(x, m) ==
    LET b(i) == IF Bit(x, i) = 1 /\ Bit(m, i) = 1 THEN Pow2(i) ELSE 0
    IN  b(0) + b(1) + b(2) + b(3) + b(4) + b(5) + b(6) + b(7)

BitOr(x, m) ==
    LET b(i) == IF Bit(x, i) = 1 \/ Bit(m, i) = 1 THEN Pow2(i) ELSE 0
    IN  b(0) + b(1) + b(2) + b(3) + b(4) + b(5) + b(6) + b(7)

\* x << n and x >> n on u8 (the bits shifted out are lost)
Shl(x, n) == (x * Pow2(n)) % 256
Shr(x, n) == x \div Pow2(n)

\* the two bytes put_u16_be writes, and the value get_u16_be reads
U16BE(v) == <<v \div 256, v % 256>>
GetU16BE(b) == b[1] * 256 + b[2]

\* what is left of a buffer after split_to(n) took the first n bytes
Drop(b, n) == SubSeq(b, n + 1, Len(b))
Take(b, n) == SubSeq(b, 1, n)

-----------------------------------------------------------------------------
(* utils.rs: PacketIdentifier *)

\* a bug: NonZeroU16 replaced by a plain u16
PacketIdentifier_new_unchecked(u) == Ok([pid |-> u])

PacketIdentifier_new(u) ==
    IF u # 0 THEN Ok([pid |-> u]) ELSE Err

PacketIdentifier_get(self) == self.pid

\* returns the result and the buffer after the call
PacketIdentifier_from_buffer(buf) ==
    IF Len(buf) < 2
    THEN [res |-> Panic, buf |-> buf]
    ELSE [res |-> PacketIdentifier_new(GetU16BE(Take(buf, 2))), buf |-> Drop(buf, 2)]

PacketIdentifier_to_buffer(self, buf) == buf \o U16BE(PacketIdentifier_get(self))

-----------------------------------------------------------------------------
(* utils.rs: QoS and QosPid *)

QoSLevels == {"AtMostOnce", "AtLeastOnce", "ExactlyOnce"}

QoS_to_u8(self) ==
    CASE self = "AtMostOnce" -> 0
      [] self = "AtLeastOnce" -> 1
      [] self = "ExactlyOnce" -> 2

QoS_from_u8(byte) ==
    CASE byte = 0 -> Ok("AtMostOnce")
      [] byte = 1 -> Ok("AtLeastOnce")
      [] byte = 2 -> Ok("ExactlyOnce")
      [] OTHER -> Err

QoS_from_hd(hd) == QoS_from_u8(Shr(BitAnd(hd, 6), 1))

\* the ? operator: an Err of the inner call is returned as it is
QosPid_tagged(tag, r) ==
    IF r.status = "Ok" THEN Ok([qos |-> tag, pid |-> Some(r.value[1])]) ELSE r

\* a bug: the identifier is validated for every level, QoS 0 included
QosPid_from_u8u16_always_pid(qos, pid) ==
    CASE qos = 0 -> QosPid_tagged("AtMostOnce", PacketIdentifier_new(pid))
      [] qos = 1 -> QosPid_tagged("AtLeastOnce", PacketIdentifier_new(pid))
      [] qos = 2 -> QosPid_tagged("ExactlyOnce", PacketIdentifier_new(pid))
      [] OTHER -> Err

QosPid_from_u8u16(qos, pid) ==
    CASE qos = 0 -> Ok([qos |-> "AtMostOnce", pid |-> None])
      [] qos = 1 -> QosPid_tagged("AtLeastOnce", PacketIdentifier_new(pid))
      [] qos = 2 -> QosPid_tagged("ExactlyOnce", PacketIdentifier_new(pid))
      [] OTHER -> Err

-----------------------------------------------------------------------------
(* utils.rs: Protocol *)

\* "MQIsdp", "MQTT" and a name that is neither, as UTF-8 bytes
NameMQIsdp == <<77, 81, 73, 115, 100, 112>>
NameMQTT == <<77, 81, 84, 84>>
NameOther == <<77, 81>>

\* Protocol::MQIsdp(level) / Protocol::MQTT(level)
MQIsdp(level) == [variant |-> "MQIsdp", level |-> level]
MQTT(level) == [variant |-> "MQTT", level |-> level]

Protocol_new(name, level) ==
    CASE name = NameMQIsdp -> IF level = 3 THEN Ok(MQIsdp(3)) ELSE Err
      [] name = NameMQTT -> IF level = 4 THEN Ok(MQTT(4)) ELSE Err
      [] OTHER -> Err

Protocol_name(self) ==
    IF self.variant = "MQIsdp" THEN NameMQIsdp ELSE NameMQTT

Protocol_level(self) == self.level

-----------------------------------------------------------------------------
(* utils.rs: ConnectReturnCode *)

ReturnCodes ==
    {"Accepted", "RefusedProtocolVersion", "RefusedIdentifierRejected",
     "ServerUnavailable", "BadUsernamePassword", "NotAuthorized"}

ConnectReturnCode_to_u8(self) ==
    CASE self = "Accepted" -> 0
      [] self = "RefusedProtocolVersion" -> 1
      [] self = "RefusedIdentifierRejected" -> 2
      [] self = "ServerUnavailable" -> 3
      [] self = "BadUsernamePassword" -> 4
      [] self = "NotAuthorized" -> 5

ConnectReturnCode_from_u8(byte) ==
    CASE byte = 0 -> Ok("Accepted")
      [] byte = 1 -> Ok("RefusedProtocolVersion")
      [] byte = 2 -> Ok("RefusedIdentifierRejected")
      [] byte = 3 -> Ok("ServerUnavailable")
      [] byte = 4 -> Ok("BadUsernamePassword")
      [] byte = 5 -> Ok("NotAuthorized")
      [] OTHER -> Err

-----------------------------------------------------------------------------
(* Calls of the utils.rs constructors and conversions *)

\* identifier values around the ends of the range and of each byte
PidSamples == {0, 1, 2, 255, 256, 257, 32768, 65534, 65535}

UtilsInputs ==
    [op : {"PacketIdentifier::new"}, u : U16]
    \cup [op : {"PacketIdentifier::from_buffer"}, hi : U8, lo : {0, 1, 255},
          rest : {<<>>, <<7>>}]
    \cup [op : {"QosPid::from_u8u16"}, qos : U8, pid : PidSamples]
    \cup [op : {"QoS::from_u8"}, byte : U8]
    \cup [op : {"QoS::to_u8"}, q : QoSLevels]

InitUtils ==
    /\ input \in UtilsInputs
    /\ buffer = IF input.op = "PacketIdentifier::from_buffer"
                THEN <<input.hi, input.lo>> \o input.rest
                ELSE <<>>
    /\ pending = <<>>
    /\ result = <<>>
    /\ pc = "start"

PidNew ==
    /\ pc = "start"
    /\ input.op = "PacketIdentifier::new"
    /\ result' = Append(result, PacketIdentifier_new(input.u))
    /\ pc' = "made"
    /\ UNCHANGED <<input, buffer, pending>>

PidFromBuffer ==
    /\ pc = "start"
    /\ input.op = "PacketIdentifier::from_buffer"
    /\ LET r == PacketIdentifier_from_buffer(buffer)
       IN  /\ result' = Append(result, r.res)
           /\ buffer' = r.buf
    /\ pc' = "made"
    /\ UNCHANGED <<input, pending>>

QosPidFromU8U16 ==
    /\ pc = "start"
    /\ input.op = "QosPid::from_u8u16"
    /\ result' = Append(result, QosPid_from_u8u16(input.qos, input.pid))
    /\ pc' = "made"
    /\ UNCHANGED <<input, buffer, pending>>

\* the PacketIdentifier values held by a returned value
PidsOf(r) ==
    IF r.status # "Ok" THEN {}
    ELSE IF input.op = "QosPid::from_u8u16"
         THEN {r.value[1].pid[i] : i \in DOMAIN r.value[1].pid}
         ELSE {r.value[1]}

\* the caller reads the identifier it was given back
PidGet ==
    /\ pc = "made"
    /\ \E p \in PidsOf(result[1]) :
          result' = Append(result, PacketIdentifier_get(p))
    /\ pc' = "done"
    /\ UNCHANGED <<input, buffer, pending>>

QoSToU8 ==
    /\ pc = "start"
    /\ input.op = "QoS::to_u8"
    /\ result' = Append(result, QoS_to_u8(input.q))
    /\ pc' = "encoded"
    /\ UNCHANGED <<input, buffer, pending>>

QoSFromU8 ==
    /\ \/ pc = "start" /\ input.op = "QoS::from_u8"
          /\ result' = Append(result, QoS_from_u8(input.byte))
       \/ pc = "encoded" /\ input.op = "QoS::to_u8"
          /\ result' = Append(result, QoS_from_u8(result[1]))
    /\ pc' = "done"
    /\ UNCHANGED <<input, buffer, pending>>

NextUtils ==
    \/ PidNew
    \/ PidFromBuffer
    \/ QosPidFromU8U16
    \/ PidGet
    \/ QoSToU8
    \/ QoSFromU8

SpecUtils == InitUtils /\ [][NextUtils]_vars

-----------------------------------------------------------------------------
(* Properties of the utils.rs types *)

\* the first call has returned
Returned == pc \in {"made", "done"}

\* C4: PacketIdentifier::new(0) is an error; new(v) for v in 1..65535 is Ok(p)
\* with p.get() = v; and no identifier obtained through new, from_buffer or
\* QosPid::from_u8u16 has get() = 0.
C4_PidNonZero ==
    /\ (Returned /\ input.op = "PacketIdentifier::new") =>
          /\ input.u = 0 => result[1].status = "Err"
          /\ input.u # 0 => result[1].status = "Ok"
          /\ (input.u # 0 /\ pc = "done") => result[2] = input.u
    /\ (Returned /\ input.op \in {"PacketIdentifier::new",
                                  "PacketIdentifier::from_buffer",
                                  "QosPid::from_u8u16"}) =>
          /\ \A p \in PidsOf(result[1]) : PacketIdentifier_get(p) \in 1..65535
          /\ pc = "done" => result[2] # 0

\* new(65535) succeeded and get() gave 65535 back
C4_Witness ==
    /\ pc = "done"
    /\ input.op = "PacketIdentifier::new"
    /\ input.u = 65535
    /\ result[1].status = "Ok"
    /\ result[2] = 65535

\* C10: QosPid::from_u8u16 gives AtMostOnce without identifier for qos 0
\* whatever pid is, AtLeastOnce(id) / ExactlyOnce(id) with id.get() = pid for
\* qos 1 / 2 and pid in 1..65535, an error for qos 1 or 2 with pid 0 and for
\* every qos >= 3; QoS::from_u8 accepts exactly 0, 1, 2 and inverts to_u8.
C10_QosPid ==
    /\ (Returned /\ input.op = "QosPid::from_u8u16") =>
          /\ input.qos = 0 =>
                result[1] = Ok([qos |-> "AtMostOnce", pid |-> None])
          /\ (input.qos \in {1, 2} /\ input.pid # 0) =>
                /\ result[1].status = "Ok"
                /\ result[1].value[1].qos =
                      (IF input.qos = 1 THEN "AtLeastOnce" ELSE "ExactlyOnce")
                /\ Len(result[1].value[1].pid) = 1
                /\ PacketIdentifier_get(result[1].value[1].pid[1]) = input.pid
                /\ pc = "done" => result[2] = input.pid
          /\ (input.qos \in {1, 2} /\ input.pid = 0) => result[1].status = "Err"
          /\ input.qos >= 3 => result[1].status = "Err"
    /\ (pc = "done" /\ input.op = "QoS::from_u8") =>
          /\ result[1].status = (IF input.byte \in {0, 1, 2} THEN "Ok" ELSE "Err")
          /\ result[1].status = "Ok" => QoS_to_u8(result[1].value[1]) = input.byte
    /\ (pc = "done" /\ input.op = "QoS::to_u8") =>
          /\ result[1] \in {0, 1, 2}
          /\ result[2] = Ok(input.q)

\* from_u8u16(0, 0) returned AtMostOnce
C10_Witness ==
    /\ pc = "made"
    /\ input.op = "QosPid::from_u8u16"
    /\ input.qos = 0
    /\ input.pid = 0
    /\ result[1].status = "Ok"

-----------------------------------------------------------------------------
(* Field codecs used by connect.rs (encoder::write_length,                 *)
(* encoder::write_string, utils::read_string)                              *)

\* largest value of the remaining-length field (4 bytes of 7 bits)
MaxRemainingLength == 268435455

\* the bytes of a variable-length integer: 7 bits per byte, low bits first,
\* high bit set on every byte but the last
RECURSIVE LengthBytes(_)
LengthBytes(len) ==
    IF len \div 128 = 0 THEN <<len % 128>>
    ELSE <<(len % 128) + 128>> \o LengthBytes(len \div 128)

write_length(len, buf) ==
    IF len > MaxRemainingLength THEN [res |-> Err, buf |-> buf]
    ELSE [res |-> Ok(<<>>), buf |-> buf \o LengthBytes(len)]

\* the value of the variable-length integer at the head of buf and the number
\* of bytes it takes
RECURSIVE read_length(_, _)
read_length(buf, pos) ==
    IF pos > Len(buf) \/ pos > 4 THEN [ok |-> FALSE, value |-> 0, size |-> 0]
    ELSE IF buf[pos] < 128 THEN [ok |-> TRUE, value |-> buf[pos], size |-> 1]
    ELSE LET more == read_length(buf, pos + 1)
         IN  [ok |-> more.ok,
              value |-> (buf[pos] % 128) + 128 * more.value,
              size |-> more.size + 1]

write_string(str, buf) ==
    IF Len(str) > 65535 THEN [res |-> Err, buf |-> buf]
    ELSE [res |-> Ok(<<>>), buf |-> buf \o U16BE(Len(str)) \o str]

\* a 16-bit big-endian length, then that many bytes
read_string(buf) ==
    IF Len(buf) < 2 \/ Len(buf) < 2 + GetU16BE(Take(buf, 2))
    THEN [ok |-> FALSE, str |-> <<>>, buf |-> buf]
    ELSE LET len == GetU16BE(Take(buf, 2))
         IN  [ok |-> TRUE, str |-> SubSeq(buf, 3, 2 + len), buf |-> Drop(buf, 2 + len)]

-----------------------------------------------------------------------------
(* connect.rs: Connect::from_buffer *)

\* a bug: the will QoS bits are validated before the will bit is looked at
Connect_last_will_qos_first(connect_flags, buf) ==
    LET will_qod == QoS_from_u8(Shr(BitAnd(connect_flags, 24), 3))
    IN  IF will_qod.status # "Ok" THEN [res |-> Panic, buf |-> buf]
        ELSE IF BitAnd(connect_flags, 4) = 0 THEN [res |-> Ok(None), buf |-> buf]
        ELSE LET will_topic == read_string(buf)
                 will_message == read_string(will_topic.buf)
             IN  IF ~will_topic.ok THEN [res |-> Panic, buf |-> buf]
                 ELSE IF ~will_message.ok THEN [res |-> Panic, buf |-> will_topic.buf]
                 ELSE [res |-> Ok(Some([topic |-> will_topic.str,
                                        message |-> will_message.str,
                                        qos |-> will_qod.value[1],
                                        retain |-> BitAnd(connect_flags, 32) # 0])),
                       buf |-> will_message.buf]

\* the last_will of a decoded Connect and the buffer after reading it
Connect_last_will(connect_flags, buf) ==
    IF BitAnd(connect_flags, 4) = 0 THEN [res |-> Ok(None), buf |-> buf]
    ELSE LET will_topic == read_string(buf)
             will_message == read_string(will_topic.buf)
             will_qod == QoS_from_u8(Shr(BitAnd(connect_flags, 24), 3))
         IN  IF ~will_topic.ok THEN [res |-> Panic, buf |-> buf]
             ELSE IF ~will_message.ok THEN [res |-> Panic, buf |-> will_topic.buf]
             ELSE IF will_qod.status # "Ok" THEN [res |-> Panic, buf |-> will_message.buf]
             ELSE [res |-> Ok(Some([topic |-> will_topic.str,
                                    message |-> will_message.str,
                                    qos |-> will_qod.value[1],
                                    retain |-> BitAnd(connect_flags, 32) # 0])),
                   buf |-> will_message.buf]

\* username, password: a string read only when its flag bit is set
Connect_optional_string(connect_flags, mask, buf) ==
    IF BitAnd(connect_flags, mask) = 0 THEN [res |-> Ok(None), buf |-> buf]
    ELSE LET str == read_string(buf)
         IN  IF ~str.ok THEN [res |-> Panic, buf |-> buf]
             ELSE [res |-> Ok(Some(str.str)), buf |-> str.buf]

\* what follows the client id: will, username, password, clean session
Connect_tail(protocol, keep_alive, client_id, connect_flags, buf) ==
    LET last_will == Connect_last_will(connect_flags, buf)
        username == Connect_optional_string(connect_flags, 128, last_will.buf)
        password == Connect_optional_string(connect_flags, 64, username.buf)
        clean_session == BitAnd(connect_flags, 2) # 0
    IN  IF last_will.res.status # "Ok" THEN [res |-> Panic, buf |-> last_will.buf]
        ELSE IF username.res.status # "Ok" THEN [res |-> Panic, buf |-> username.buf]
        ELSE IF password.res.status # "Ok" THEN [res |-> Panic, buf |-> password.buf]
        ELSE [res |-> Ok([protocol |-> protocol,
                          keep_alive |-> keep_alive,
                          client_id |-> client_id,
                          username |-> username.res.value[1],
                          password |-> password.res.value[1],
                          last_will |-> last_will.res.value[1],
                          clean_session |-> clean_session]),
              buf |-> password.buf]

\* a bug: the keep-alive is read as one byte
Connect_from_buffer_short_keep_alive(buf) ==
    LET protocol_name == read_string(buf)
        b1 == protocol_name.buf
        protocol == Protocol_new(protocol_name.str, b1[1])
        b2 == Drop(b1, 1)
        b3 == Drop(b2, 1)
        b4 == Drop(b3, 1)
        client_id == read_string(b4)
    IN  IF ~protocol_name.ok THEN [res |-> Panic, buf |-> buf]
        ELSE IF Len(b1) < 1 THEN [res |-> Panic, buf |-> b1]
        ELSE IF protocol.status # "Ok" THEN [res |-> Panic, buf |-> b2]
        ELSE IF Len(b2) < 1 THEN [res |-> Panic, buf |-> b2]
        ELSE IF Len(b3) < 1 THEN [res |-> Panic, buf |-> b3]
        ELSE IF ~client_id.ok THEN [res |-> Panic, buf |-> b4]
        ELSE Connect_tail(protocol.value[1], b3[1], client_id.str, b2[1],
                          client_id.buf)

\* returns the result and the buffer after the call.  The unwrap of
\* Protocol::new and of QoS::from_u8, and every read past the end of the
\* buffer, abort the call.
Connect_from_buffer(buf) ==
    LET protocol_name == read_string(buf)
        b1 == protocol_name.buf
        protocol == Protocol_new(protocol_name.str, b1[1])
        b2 == Drop(b1, 1)
        b3 == Drop(b2, 1)
        b4 == Drop(b3, 2)
        client_id == read_string(b4)
    IN  IF ~protocol_name.ok THEN [res |-> Panic, buf |-> buf]
        ELSE IF Len(b1) < 1 THEN [res |-> Panic, buf |-> b1]
        ELSE IF protocol.status # "Ok" THEN [res |-> Panic, buf |-> b2]
        ELSE IF Len(b2) < 1 THEN [res |-> Panic, buf |-> b2]
        ELSE IF Len(b3) < 2 THEN [res |-> Panic, buf |-> b3]
        ELSE IF ~client_id.ok THEN [res |-> Panic, buf |-> b4]
        ELSE Connect_tail(protocol.value[1], GetU16BE(Take(b3, 2)), client_id.str,
                          b2[1], client_id.buf)

-----------------------------------------------------------------------------
(* connect.rs: Connect::to_buffer *)

\* a bug: the QoS is shifted to bits 2-3 instead of bits 3-4
Connect_flags_shift2(self) ==
    LET f0 == 0
        f1 == IF self.clean_session THEN BitOr(f0, 2) ELSE f0
        f2 == IF self.username # None THEN BitOr(f1, 128) ELSE f1
        f3 == IF self.password # None THEN BitOr(f2, 64) ELSE f2
        f4 == IF self.last_will # None THEN BitOr(f3, 4) ELSE f3
        f5 == IF self.last_will # None
              THEN BitOr(f4, Shl(QoS_to_u8(self.last_will[1].qos), 2)) ELSE f4
        f6 == IF self.last_will # None /\ self.last_will[1].retain
              THEN BitOr(f5, 32) ELSE f5
    IN  f6

\* connect_flags as to_buffer accumulates it
Connect_flags(self) ==
    LET f0 == 0
        f1 == IF self.clean_session THEN BitOr(f0, 2) ELSE f0
        f2 == IF self.username # None THEN BitOr(f1, 128) ELSE f1
        f3 == IF self.password # None THEN BitOr(f2, 64) ELSE f2
        f4 == IF self.last_will # None THEN BitOr(f3, 4) ELSE f3
        f5 == IF self.last_will # None
              THEN BitOr(f4, Shl(QoS_to_u8(self.last_will[1].qos), 3)) ELSE f4
        f6 == IF self.last_will # None /\ self.last_will[1].retain
              THEN BitOr(f5, 32) ELSE f5
    IN  f6

\* length as to_buffer accumulates it
Connect_length(self) ==
    LET l0 == 6 + 1 + 1
        l1 == l0 + Len(self.client_id)
        l2 == IF self.username # None THEN l1 + Len(self.username[1]) + 2 ELSE l1
        l3 == IF self.password # None THEN l2 + Len(self.password[1]) + 2 ELSE l2
        l4 == IF self.last_will # None
              THEN l3 + Len(self.last_will[1].message) + Len(self.last_will[1].topic) + 4
              ELSE l3
    IN  l4 + 2

\* write_string(s, buffer)? for each string of strs in turn, stopping at the
\* first that fails
RECURSIVE write_strings(_, _)
write_strings(strs, buf) ==
    IF strs = <<>> THEN [res |-> Ok(<<>>), buf |-> buf]
    ELSE LET w == write_string(Head(strs), buf)
         IN  IF w.res.status # "Ok" THEN w ELSE write_strings(Tail(strs), w.buf)

\* the optional strings in the order to_buffer writes them
Connect_optional_fields(self) ==
    (IF self.last_will # None
     THEN <<self.last_will[1].topic, self.last_will[1].message>> ELSE <<>>)
    \o (IF self.username # None THEN <<self.username[1]>> ELSE <<>>)
    \o (IF self.password # None THEN <<self.password[1]>> ELSE <<>>)

\* returns the result and the buffer after the call
Connect_to_buffer(self, buf) ==
    LET header_u8 == 16
        length == Connect_length(self)
        connect_flags == Connect_flags(self)
        w1 == write_length(length, Append(buf, header_u8))
        w2 == write_string(Protocol_name(self.protocol), w1.buf)
        b3 == w2.buf \o <<Protocol_level(self.protocol), connect_flags>>
                     \o U16BE(self.keep_alive)
        w4 == write_string(self.client_id, b3)
        w5 == write_strings(Connect_optional_fields(self), w4.buf)
    IN  IF w1.res.status # "Ok" THEN w1
        ELSE IF w2.res.status # "Ok" THEN w2
        ELSE IF w4.res.status # "Ok" THEN w4
        ELSE w5

-----------------------------------------------------------------------------
(* connect.rs: Connack *)

\* a bug: the whole flags byte is compared instead of bit 0
Connack_from_buffer_whole_byte(buf) ==
    IF Len(buf) < 1 THEN [res |-> Panic, buf |-> buf]
    ELSE IF Len(buf) < 2 THEN [res |-> Panic, buf |-> Drop(buf, 1)]
    ELSE LET flags == buf[1]
             return_code == buf[2]
             code == ConnectReturnCode_from_u8(return_code)
         IN  [res |-> IF code.status = "Ok"
                      THEN Ok([session_present |-> (flags = 1),
                               code |-> code.value[1]])
                      ELSE code,
              buf |-> Drop(buf, 2)]

\* returns the result and the buffer after the call; each split_to aborts
\* when the buffer is shorter than what it takes
Connack_from_buffer(buf) ==
    IF Len(buf) < 1 THEN [res |-> Panic, buf |-> buf]
    ELSE IF Len(buf) < 2 THEN [res |-> Panic, buf |-> Drop(buf, 1)]
    ELSE LET flags == buf[1]
             return_code == buf[2]
             code == ConnectReturnCode_from_u8(return_code)
         IN  [res |-> IF code.status = "Ok"
                      THEN Ok([session_present |-> (BitAnd(flags, 1) = 1),
                               code |-> code.value[1]])
                      ELSE code,
              buf |-> Drop(buf, 2)]

ConnackInputs ==
    [op : {"Connack::from_buffer"}, f : U8, c : U8, rest : {<<>>, <<9>>}]
    \cup [op : {"ConnectReturnCode::to_u8"}, x : ReturnCodes]

InitConnack ==
    /\ input \in ConnackInputs
    /\ buffer = IF input.op = "Connack::from_buffer"
                THEN <<input.f, input.c>> \o input.rest
                ELSE <<>>
    /\ pending = IF input.op = "Connack::from_buffer" THEN <<"Connack">> ELSE <<>>
    /\ result = <<>>
    /\ pc = IF input.op = "Connack::from_buffer" THEN "body" ELSE "start"

\* where the caller stands after a decode call returned r (or did not return)
AfterDecode(r) ==
    IF r.res.status = "Panic" THEN "aborted"
    ELSE IF Tail(pending) = <<>> THEN "done"
    ELSE "body"

ConnackFromBuffer ==
    /\ pc = "body"
    /\ pending # <<>> /\ Head(pending) = "Connack"
    /\ LET r == Connack_from_buffer(buffer)
       IN  /\ result' = Append(result, r.res)
           /\ buffer' = r.buf
           /\ pc' = AfterDecode(r)
    /\ pending' = Tail(pending)
    /\ UNCHANGED input

ReturnCodeToU8 ==
    /\ pc = "start"
    /\ input.op = "ConnectReturnCode::to_u8"
    /\ result' = Append(result, ConnectReturnCode_to_u8(input.x))
    /\ pc' = "encoded"
    /\ UNCHANGED <<input, buffer, pending>>

ReturnCodeFromU8 ==
    /\ pc = "encoded"
    /\ input.op = "ConnectReturnCode::to_u8"
    /\ result' = Append(result, ConnectReturnCode_from_u8(result[1]))
    /\ pc' = "done"
    /\ UNCHANGED <<input, buffer, pending>>

NextConnack ==
    \/ ConnackFromBuffer
    \/ ReturnCodeToU8
    \/ ReturnCodeFromU8

SpecConnack == InitConnack /\ [][NextConnack]_vars

\* the return codes in wire order
CodeTable ==
    <<"Accepted", "RefusedProtocolVersion", "RefusedIdentifierRejected",
      "ServerUnavailable", "BadUsernamePassword", "NotAuthorized">>

\* C5: Connack::from_buffer on [f, c, ...] returns Ok(Connack{session_present:
\* f & 1 = 1, code: entry c of the table}) when c is in 0..5, whatever bits 1-7
\* of f are, and an error when c is in 6..255; from_u8(to_u8(x)) = x for the
\* six codes.
C5_Connack ==
    /\ (pc = "done" /\ input.op = "Connack::from_buffer") =>
          /\ input.c \in 0..5 =>
                result[1] = Ok([session_present |-> (input.f % 2 = 1),
                                code |-> CodeTable[input.c + 1]])
          /\ input.c \in 6..255 => result[1] = Err
          /\ (input.f = 1 /\ input.c = 0) =>
                result[1] = Ok([session_present |-> TRUE, code |-> "Accepted"])
    /\ (pc = "done" /\ input.op = "ConnectReturnCode::to_u8") =>
          result[2] = Ok(input.x)

\* [0xFF, 0x05] decoded: session present, NotAuthorized
C5_Witness ==
    /\ pc = "done"
    /\ input.op = "Connack::from_buffer"
    /\ input.f = 255
    /\ input.c = 5
    /\ result[1].status = "Ok"
    /\ result[1].value[1].session_present

-----------------------------------------------------------------------------
(* Encoding a Connect, then decoding what was written *)

\* n copies of the byte ch
RECURSIVE Repeat(_, _)
Repeat(ch, n) == IF n = 0 THEN <<>> ELSE <<ch>> \o Repeat(ch, n - 1)

\* the strings of up to MaxStrLen bytes drawn for a field, each field with a
\* letter of its own: c, t, m, u, p
StringsOf(ch) == {Repeat(ch, n) : n \in 0..MaxStrLen}
ClientIds == StringsOf(99)
Topics == StringsOf(116)
Messages == StringsOf(109)
Usernames == StringsOf(117)
Passwords == StringsOf(112)

Levels == {3, 4, 5}
KeepAlives == {0, 258, 65535}

\* the variants are public: any level can be put in either
Protocols == {MQIsdp(l) : l \in Levels} \cup {MQTT(l) : l \in Levels}

LastWills == [topic : Topics, message : Messages, qos : QoSLevels, retain : BOOLEAN]

Option(S) == {None} \cup {Some(x) : x \in S}

Connects ==
    [protocol : Protocols,
     keep_alive : KeepAlives,
     client_id : ClientIds,
     clean_session : BOOLEAN,
     last_will : Option(LastWills),
     username : Option(Usernames),
     password : Option(Passwords)]

InitEncode ==
    /\ input \in Connects
    /\ buffer = <<>>
    /\ pending = <<>>
    /\ result = <<>>
    /\ pc = "start"

ConnectToBuffer ==
    /\ pc = "start"
    /\ LET r == Connect_to_buffer(input, buffer)
       IN  /\ result' = Append(result, r.res)
           /\ buffer' = r.buf
    /\ pc' = "encoded"
    /\ UNCHANGED <<input, pending>>

\* the receiver takes the fixed-header byte and the remaining-length field
\* off the buffer and hands the rest to the decoder of the packet type
StripHeader ==
    /\ pc = "encoded"
    /\ result[1].status = "Ok"
    /\ LET len == read_length(Drop(buffer, 1), 1)
       IN  /\ len.ok
           /\ result' = Append(result, [header |-> buffer[1], remaining |-> len.value])
           /\ buffer' = Drop(buffer, 1 + len.size)
    /\ pending' = <<"Connect">>
    /\ pc' = "body"
    /\ UNCHANGED input

ConnectFromBuffer ==
    /\ pc = "body"
    /\ pending # <<>> /\ Head(pending) = "Connect"
    /\ LET r == Connect_from_buffer(buffer)
       IN  /\ result' = Append(result, r.res)
           /\ buffer' = r.buf
           /\ pc' = AfterDecode(r)
    /\ pending' = Tail(pending)
    /\ UNCHANGED input

NextEncode ==
    \/ ConnectToBuffer
    \/ StripHeader
    \/ ConnectFromBuffer

SpecEncode == InitEncode /\ [][NextEncode]_vars

-----------------------------------------------------------------------------
(* Decoding packet bodies received from a peer *)

Names == {NameMQIsdp, NameMQTT, NameOther}

\* what may follow the first packet body in the buffer: nothing, or Connack
\* bodies
Tails == {<<>>, <<1, 0>>}
ConnackTails == {<<>>, <<1, 0>>, <<0, 5, 1, 0>>}

\* the bytes of a length-prefixed string
Str(s) == U16BE(Len(s)) \o s

\* the body a peer sends for the fields of raw: the will strings, the username
\* and the password are there exactly when their flag bit is set
WireBody(raw) ==
    Str(raw.name) \o <<raw.level, raw.flags>> \o U16BE(raw.keep_alive)
    \o Str(raw.client_id)
    \o (IF Bit(raw.flags, 2) = 1 THEN Str(raw.topic) \o Str(raw.message) ELSE <<>>)
    \o (IF Bit(raw.flags, 7) = 1 THEN Str(raw.username) ELSE <<>>)
    \o (IF Bit(raw.flags, 6) = 1 THEN Str(raw.password) ELSE <<>>)

\* the strings of a field that is on the wire only when its flag bit is set
WhenSet(flags, i, strs) == IF Bit(flags, i) = 1 THEN strs ELSE {<<>>}

\* the name/level pairs received: the two recognized ones, each name with a
\* level that is not its own, and a name that is not known
NameLevels ==
    {<<NameMQIsdp, 3>>, <<NameMQTT, 4>>, <<NameMQIsdp, 4>>, <<NameMQTT, 3>>,
     <<NameMQTT, 5>>, <<NameOther, 4>>}

\* keep-alive values received
RawKeepAlives == {0, 258}

RawConnects ==
    UNION {[op : {"Connect::from_buffer"}, name : {nl[1]}, level : {nl[2]},
            flags : {f}, keep_alive : RawKeepAlives, client_id : ClientIds,
            topic : WhenSet(f, 2, Topics), message : WhenSet(f, 2, Messages),
            username : WhenSet(f, 7, Usernames),
            password : WhenSet(f, 6, Passwords), tail : Tails] :
           f \in U8, nl \in NameLevels}

RawConnacks ==
    [op : {"Connack::from_buffer"}, f : {0, 1, 254, 255}, c : {0, 1, 5, 6, 255},
     tail : ConnackTails]

\* the buffer the transport hands over, and the kinds of the bodies in it
Wire(raw) ==
    (IF raw.op = "Connect::from_buffer" THEN WireBody(raw) ELSE <<raw.f, raw.c>>)
    \o raw.tail

Kinds(raw) ==
    <<IF raw.op = "Connect::from_buffer" THEN "Connect" ELSE "Connack">>
    \o [i \in 1..(Len(raw.tail) \div 2) |-> "Connack"]

InitDecode ==
    /\ input \in RawConnects \cup RawConnacks
    /\ buffer = Wire(input)
    /\ pending = Kinds(input)
    /\ result = <<>>
    /\ pc = "body"

NextDecode ==
    \/ ConnectFromBuffer
    \/ ConnackFromBuffer

SpecDecode == InitDecode /\ [][NextDecode]_vars

-----------------------------------------------------------------------------
(* Properties of Connect::to_buffer *)

RecognizedPairs == {<<NameMQIsdp, 3>>, <<NameMQTT, 4>>}

Recognized(protocol) ==
    <<Protocol_name(protocol), Protocol_level(protocol)>> \in RecognizedPairs

\* the header was taken off: buffer holds what to_buffer wrote after the
\* remaining-length field
BodyWritten == pc = "body" /\ pending = <<"Connect">> /\ Len(result) = 2

\* the decoder was run on what to_buffer wrote
RoundTripped == pc \in {"done", "aborted"} /\ Len(result) = 3

\* C1: to_buffer on an empty buffer, the fixed header and the remaining
\* length removed, then from_buffer, returns Ok(P') with P' = P, for every
\* constructible Connect value P.
C1_RoundTrip ==
    RoundTripped => result[3] = Ok(input)

\* the round trip of the Connect values whose protocol is a recognized pair
C1_RoundTripRecognized ==
    (RoundTripped /\ Recognized(input.protocol)) =>
        /\ result[3] = Ok(input)
        /\ buffer = <<>>

\* 2 + length of an optional string, 0 when it is absent
FieldSize(opt) == IF opt = None THEN 0 ELSE 2 + Len(opt[1])

\* the size the claim states for the body of a Connect value
StatedLength(c) ==
    (2 + Len(Protocol_name(c.protocol))) + 1 + 1 + 2 + (2 + Len(c.client_id))
    + (IF c.last_will = None THEN 0
       ELSE (2 + Len(c.last_will[1].topic)) + (2 + Len(c.last_will[1].message)))
    + FieldSize(c.username) + FieldSize(c.password)

\* C2: the remaining length to_buffer writes equals the number of bytes it
\* writes after the remaining-length field, which is the sum of the encoded
\* sizes of the fields present.
C2_RemainingLength ==
    BodyWritten =>
        /\ result[2].remaining = Len(buffer)
        /\ result[2].remaining = StatedLength(input)

\* the bytes written after the length field are the stated number
C2_BodySize ==
    BodyWritten => Len(buffer) = StatedLength(input)

\* C8: Protocol::new returns Ok only for ("MQIsdp", 3) and ("MQTT", 4), and
\* then name() and level() give back the name and level; every Protocol value
\* that reaches Connect::to_buffer is one of these two pairs.
C8_ProtocolRecognized ==
    /\ \A name \in Names, level \in Levels :
          LET p == Protocol_new(name, level)
          IN  /\ p.status = "Ok" <=> <<name, level>> \in RecognizedPairs
              /\ p.status = "Ok" =>
                    /\ Protocol_name(p.value[1]) = name
                    /\ Protocol_level(p.value[1]) = level
              /\ p.status # "Ok" => p = Err
    /\ pc # "start" => Recognized(input.protocol)

\* the level of the QoS as the wire numbers it
WireQoS(q) ==
    IF q = "AtMostOnce" THEN 0 ELSE IF q = "AtLeastOnce" THEN 1 ELSE 2

\* the connect-flags byte of the body in the buffer: it follows the protocol
\* name and the level
WrittenFlags == buffer[2 + Len(Protocol_name(input.protocol)) + 2]

\* C9: the connect-flags byte written by to_buffer has bit 0 clear, bit 1 =
\* clean_session, bit 2 = will present, bits 3-4 = the will QoS (0 without a
\* will), bit 5 = will present and retain, bit 6 = password present, bit 7 =
\* username present; the first byte written is 0b00010000.
C9_ConnectFlags ==
    BodyWritten =>
        /\ result[2].header = 16
        /\ WrittenFlags \in U8
        /\ Bit(WrittenFlags, 0) = 0
        /\ Bit(WrittenFlags, 1) = 1 <=> input.clean_session
        /\ Bit(WrittenFlags, 2) = 1 <=> input.last_will # None
        /\ (WrittenFlags \div 8) % 4 =
              (IF input.last_will = None THEN 0 ELSE WireQoS(input.last_will[1].qos))
        /\ Bit(WrittenFlags, 5) = 1 <=>
              (input.last_will # None /\ input.last_will[1].retain)
        /\ Bit(WrittenFlags, 6) = 1 <=> input.password # None
        /\ Bit(WrittenFlags, 7) = 1 <=> input.username # None

\* a Connect with a retained QoS 2 will, username, password and clean session
\* was written: 0b11110110
C9_Witness ==
    /\ BodyWritten
    /\ input.clean_session
    /\ input.last_will # None
    /\ input.last_will[1].qos = "ExactlyOnce"
    /\ input.last_will[1].retain
    /\ input.username # None
    /\ input.password # None
    /\ WrittenFlags = 246

-----------------------------------------------------------------------------
(* Properties of Connect::from_buffer and Connack::from_buffer on received *)
(* bodies                                                                  *)

\* the first body was a Connect and its decode call is over
ConnectDecoded == input.op = "Connect::from_buffer" /\ Len(result) >= 1

RawRecognized(raw) == <<raw.name, raw.level>> \in RecognizedPairs

\* the will-QoS bits (flags & 0b11000) >> 3
RawWillQoS(raw) == (raw.flags \div 8) % 4

\* C3: from_buffer returns Err, and does not abort, on a complete body whose
\* protocol name/level is not a recognized pair, and on one whose will bit is
\* set with will-QoS bits equal to 3.
C3_TypedFailure ==
    (/\ ConnectDecoded
     /\ \/ ~RawRecognized(input)
        \/ Bit(input.flags, 2) = 1 /\ RawWillQoS(input) = 3) =>
        result[1].status = "Err"

\* the Connect value the fields of a received body stand for
QoSOfWire(n) ==
    IF n = 0 THEN "AtMostOnce" ELSE IF n = 1 THEN "AtLeastOnce" ELSE "ExactlyOnce"

ExpectedConnect(raw) ==
    [protocol |-> IF raw.name = NameMQIsdp THEN MQIsdp(raw.level) ELSE MQTT(raw.level),
     keep_alive |-> raw.keep_alive,
     client_id |-> raw.client_id,
     clean_session |-> Bit(raw.flags, 1) = 1,
     last_will |-> IF Bit(raw.flags, 2) = 1
                   THEN Some([topic |-> raw.topic, message |-> raw.message,
                              qos |-> QoSOfWire(RawWillQoS(raw)),
                              retain |-> Bit(raw.flags, 5) = 1])
                   ELSE None,
     username |-> IF Bit(raw.flags, 7) = 1 THEN Some(raw.username) ELSE None,
     password |-> IF Bit(raw.flags, 6) = 1 THEN Some(raw.password) ELSE None]

\* raw with the will-QoS and will-retain bits of its flags cleared
WillBitsCleared(raw) == [raw EXCEPT !.flags = raw.flags - 8 * ((raw.flags \div 8) % 8)]

\* C6: when the will bit of the flags is 0, from_buffer succeeds with
\* last_will = None whatever the will-QoS and will-retain bits are; no will
\* string is taken from the buffer, and the other fields are those decoded
\* with these bits cleared.  (The protocol pair is a recognized one and the
\* body is complete.)
C6_WillBitsIgnored ==
    (/\ ConnectDecoded
     /\ RawRecognized(input)
     /\ Bit(input.flags, 2) = 0) =>
        /\ result[1].status = "Ok"
        /\ result[1].value[1].last_will = None
        /\ result[1].value[1] = ExpectedConnect(WillBitsCleared(input))
        /\ result[1] = Connect_from_buffer(Wire(WillBitsCleared(input))).res
        /\ Len(result) = 1 => buffer = input.tail

\* will bit clear, will-QoS bits 3 and retain bit set, username present:
\* decoded without a will
C6_Witness ==
    /\ ConnectDecoded
    /\ RawRecognized(input)
    /\ input.flags = 184
    /\ input.username # <<>>
    /\ result[1].status = "Ok"
    /\ result[1].value[1].last_will = None
    /\ result[1].value[1].username = Some(input.username)

\* the number of bytes of the body of a decoded packet
BodySize(kind, r) ==
    IF kind = "Connack" THEN 2 ELSE StatedLength(r.value[1])

RECURSIVE SizeOfBodies(_, _, _)
SizeOfBodies(kinds, rs, n) ==
    IF n = 0 THEN 0
    ELSE SizeOfBodies(kinds, rs, n - 1) + BodySize(kinds[n], rs[n])

\* the Connack value of a two-byte body
ExpectedConnack(f, c) == [session_present |-> f % 2 = 1, code |-> CodeTable[c + 1]]

\* the packets of the bodies handed over, in order
ExpectedPackets(raw) ==
    <<IF raw.op = "Connect::from_buffer" THEN ExpectedConnect(raw)
      ELSE ExpectedConnack(raw.f, raw.c)>>
    \o [i \in 1..(Len(raw.tail) \div 2) |->
            ExpectedConnack(raw.tail[2 * i - 1], raw.tail[2 * i])]

AllOk == \A i \in DOMAIN result : result[i].status = "Ok"

\* C7: while every decode so far succeeded, the buffer has lost exactly the
\* bytes of the bodies decoded (2 for a Connack, the fields read for a
\* Connect) and holds the bytes after them unchanged and in order; when all
\* the bodies are decoded the packets were returned in order and the buffer is
\* empty.
C7_ExactConsumption ==
    AllOk =>
        /\ buffer = Drop(Wire(input), SizeOfBodies(Kinds(input), result, Len(result)))
        /\ \A i \in DOMAIN result : result[i].value[1] = ExpectedPackets(input)[i]
        /\ pending = <<>> => (buffer = <<>> /\ Len(result) = Len(Kinds(input)))

\* a Connect body with a will, a username and a password, followed by a
\* Connack body: both decoded, nothing left
C7_Witness ==
    /\ ConnectDecoded
    /\ AllOk
    /\ Len(result) = 2
    /\ input.flags = 198
    /\ input.topic # <<>>
    /\ input.password # <<>>
    /\ pending = <<>>
    /\ buffer = <<>>

====
